---- MODULE Spec2Model ----
(***************************************************************************)
(* Rules engine of the shoulder-recovery planner (lib/rules-engine.ts):    *)
(* recovery stage, allowed activities and rehab plan, together with the    *)
(* pages that feed it from the log store.                                  *)
(*                                                                         *)
(* Time is counted in whole days; a date is a day number and `now` is the  *)
(* day on which a function is called.                                      *)
(***************************************************************************)
EXTENDS Integers, Sequences, FiniteSets, TLC

VARIABLES
  now,        \* new Date(): the current day
  profile,    \* the UserProfile handed to the rules engine
  store,      \* the logs table of the user, one row per date, oldest first
  logs,       \* the DailyLog[] window handed to the rules engine
  latestLog,  \* the latestLog argument (NoLog for null)
  stage,      \* result of currentRecoveryStage, NoStage before the call
  allowed,    \* result of allowedActivities, NoResult before the call
  catalog,    \* the exercise library, in catalog order
  workout,    \* result of rehabPlan, NoResult before the call
  weekly,     \* result of fitnessPlan, NoResult before the call
  hint,       \* result of suggestNextMilestone, NoHint before the call
  progress,   \* result of shouldProgress, NoResult before the call
  pc          \* the operation that ran last

vars == <<now, profile, store, logs, latestLog, stage, allowed, catalog,
          workout, weekly, hint, progress, pc>>

\* null, undefined and "not computed yet"
NoLog == [null |-> TRUE]
NoDate == <<>>
NoStage == "pending"
NoResult == [pending |-> TRUE]
NoHint == "pending"

(***************************************************************************)
(* Bounds and input samples                                                *)
(***************************************************************************)
MaxLogs == 8

NowSamples == {100}

\* injury dates 2, 3, 6, 7, 12 and 13 whole weeks before day 100
InjuryDates == {80, 79, 52, 51, 10, 9}

\* an optional date is <<>> or <<day>>
\* surgery dates: none stored, in the future, 1 week ago, 14 weeks ago
SurgeryDates == {NoDate, <<110>>, <<90>>, <<2>>}

SurgeryStatuses == {"none", "planned", "post-op"}

Buckets == {"<60", "60-90", "90-120", "120-150", "150+"}

\* a bucket string outside the five known ones
BucketInputs == Buckets \cup {"other"}

MaxScore == 10

Log(p, i, s, f, a, w) ==
  [pain |-> p, instability |-> i, sleepImpact |-> s,
   flexionBucket |-> f, abductionBucket |-> a, slingWorn |-> w]

Restrictions(sl, nr, no, ab, fl, er) ==
  [inSling |-> sl, noRunning |-> nr, noOverhead |-> no,
   maxAbductionAngle |-> ab, maxFlexionAngle |-> fl,
   externalRotationLimit |-> er]

Profile(inj, st, sd, r) ==
  [injuryDate |-> inj, surgeryStatus |-> st, surgeryDate |-> sd,
   restrictions |-> r]

\* the restrictions of createMockProfile
MockRestrictions(sl) == Restrictions(sl, FALSE, TRUE, 90, 90, "moderate")

\* every single check-in as far as the stage classifier reads it
RomLogs ==
  {Log(p, 3, 3, f, a, FALSE) : p \in 0..MaxScore, f \in BucketInputs, a \in BucketInputs}

\* three typical check-ins: bad day, middling day, good day
DayLogs ==
  {Log(8, 3, 3, "<60", "60-90", FALSE),
   Log(5, 3, 3, "120-150", "150+", FALSE),
   Log(1, 3, 3, "150+", "150+", FALSE)}

SeqsUpTo(S, n) == UNION {[1..k -> S] : k \in 0..n}

(***************************************************************************)
(* Helpers of the rules engine                                             *)
(***************************************************************************)
bucketToAngle(bucket) ==
  CASE bucket = "<60" -> 30
    [] bucket = "60-90" -> 75
    [] bucket = "90-120" -> 105
    [] bucket = "120-150" -> 135
    [] bucket = "150+" -> 165
    [] OTHER -> 0

DaysPerWeek == 7

\* Math.floor(diffMs / week): \div rounds towards minus infinity
weeksSince(dateStr) == (now - dateStr) \div DaysPerWeek

\* Array.prototype.slice(-n)
SliceLast(s, n) ==
  IF Len(s) <= n THEN s ELSE SubSeq(s, Len(s) - n + 1, Len(s))

\* Array.prototype.slice(0, n)
SliceFirst(s, n) ==
  IF Len(s) <= n THEN s ELSE SubSeq(s, 1, n)

\* Math.min
Min(a, b) == IF a <= b THEN a ELSE b

RECURSIVE SumPain(_)
\* reduce((sum, l) => sum + l.pain, 0)
SumPain(s) ==
  IF s = <<>> THEN 0 ELSE s[1].pain + SumPain(Tail(s))

RecentCount == 7

\* variant: the first seven entries of the window instead of the last seven
recentLogs_First(ls) == SliceFirst(ls, RecentCount)

recentLogs(ls) == SliceLast(ls, RecentCount)

\* weeksSinceSurgery ?? weeksSinceInjury
weeksRecovering(p) ==
  IF p.surgeryDate # NoDate THEN weeksSince(p.surgeryDate[1])
  ELSE weeksSince(p.injuryDate)

\* avgPain >= k, with avgPain = sum / length, or 5 for an empty window
AvgPainAtLeast(recent, k) ==
  IF Len(recent) > 0 THEN SumPain(recent) >= k * Len(recent) ELSE 5 >= k

\* variant: the acute tier forgets the sling
currentRecoveryStage_NoSling(p, ls) ==
  LET recent == recentLogs(ls)
      hasLog == Len(recent) > 0
      latestFlexion == IF hasLog THEN bucketToAngle(recent[Len(recent)].flexionBucket) ELSE 30
      latestAbduction == IF hasLog THEN bucketToAngle(recent[Len(recent)].abductionBucket) ELSE 30
      weeks == weeksRecovering(p)
  IN  IF weeks <= 2 \/ AvgPainAtLeast(recent, 7)
        THEN "acute"
      ELSE IF weeks <= 6 \/ latestFlexion < 90 \/ latestAbduction < 90
              \/ AvgPainAtLeast(recent, 5)
        THEN "early-rehab"
      ELSE IF weeks <= 12 \/ latestFlexion < 150 \/ latestAbduction < 150
        THEN "strengthening"
      ELSE "return-to-sport"

currentRecoveryStage(p, ls) ==
  LET recent == recentLogs(ls)
      hasLog == Len(recent) > 0
      latestFlexion == IF hasLog THEN bucketToAngle(recent[Len(recent)].flexionBucket) ELSE 30
      latestAbduction == IF hasLog THEN bucketToAngle(recent[Len(recent)].abductionBucket) ELSE 30
      weeks == weeksRecovering(p)
  IN  IF weeks <= 2 \/ p.restrictions.inSling \/ AvgPainAtLeast(recent, 7)
        THEN "acute"
      ELSE IF weeks <= 6 \/ latestFlexion < 90 \/ latestAbduction < 90
              \/ AvgPainAtLeast(recent, 5)
        THEN "early-rehab"
      ELSE IF weeks <= 12 \/ latestFlexion < 150 \/ latestAbduction < 150
        THEN "strengthening"
      ELSE "return-to-sport"

(***************************************************************************)
(* Stage classifier called directly                                        *)
(***************************************************************************)
StageProfiles ==
  {Profile(inj, "none", NoDate, MockRestrictions(sl)) :
     inj \in InjuryDates, sl \in BOOLEAN}

SurgeryProfiles ==
  {Profile(inj, st, sd, MockRestrictions(sl)) :
     inj \in InjuryDates, st \in SurgeryStatuses, sd \in SurgeryDates, sl \in BOOLEAN}

InitStage ==
  /\ now \in NowSamples
  /\ \/ /\ profile \in StageProfiles
        /\ logs \in SeqsUpTo(DayLogs, MaxLogs)
     \/ /\ profile \in SurgeryProfiles
        /\ logs \in {<<>>} \cup {<<l>> : l \in RomLogs}
  /\ store = <<>>
  /\ latestLog = NoLog
  /\ stage = NoStage
  /\ allowed = NoResult
  /\ catalog = <<>>
  /\ workout = NoResult
  /\ weekly = NoResult
  /\ hint = NoHint
  /\ progress = NoResult
  /\ pc = "start"

ClassifyStage ==
  /\ pc = "start"
  /\ stage' = currentRecoveryStage(profile, logs)
  /\ pc' = "stage"
  /\ UNCHANGED <<now, profile, store, logs, latestLog, allowed, catalog, workout, weekly, hint, progress>>

NextStage == ClassifyStage

SpecStage == InitStage /\ [][NextStage]_vars

(***************************************************************************)
(* allowedActivities                                                       *)
(***************************************************************************)
\* variant: sleep impact does not trigger a deload
isDeloadWeek_NoSleep(log) ==
  log # NoLog /\ (log.pain >= 7 \/ log.instability >= 7)

isDeloadWeek(log) ==
  log # NoLog /\ (log.pain >= 7 \/ log.instability >= 7 \/ log.sleepImpact >= 8)

\* variant: running pauses only above pain 6
runAllowed_Pain6(r, log) ==
  /\ ~r.noRunning /\ ~r.inSling
  /\ (log = NoLog \/ (log.pain <= 6 /\ log.instability <= 5))

\* the guard of cardio.push('run'); runPaused is its else branch
runAllowed(r, log) ==
  /\ ~r.noRunning /\ ~r.inSling
  /\ (log = NoLog \/ (log.pain <= 5 /\ log.instability <= 5))

\* variant: the note goes with every plan that withholds running
runPaused_WheneverNoRun(r, log) == ~runAllowed(r, log)

runPaused(r, log) ==
  /\ ~r.noRunning /\ ~r.inSling
  /\ ~(log = NoLog \/ (log.pain <= 5 /\ log.instability <= 5))

rowAllowed(r, log) ==
  /\ ~r.inSling
  /\ r.maxAbductionAngle >= 60
  /\ r.maxFlexionAngle >= 90
  /\ (log = NoLog \/ log.pain <= 3)

\* variant: overhead clearance forgets the flexion limit
canDoOverhead_NoFlexion(r, log) ==
  /\ ~r.noOverhead
  /\ r.maxAbductionAngle >= 120
  /\ (log = NoLog \/ log.pain <= 3)

canDoOverhead(r, log) ==
  /\ ~r.noOverhead
  /\ r.maxAbductionAngle >= 120
  /\ r.maxFlexionAngle >= 120
  /\ (log = NoLog \/ log.pain <= 3)

canDoHeavyCarries(r, log) ==
  /\ ~r.inSling
  /\ r.maxFlexionAngle >= 90
  /\ (log = NoLog \/ log.pain <= 4)

\* variant: pull-ups need a check-in that confirms low pain
canDoPullUps_NeedsLog(r, log) ==
  /\ ~r.inSling
  /\ r.maxAbductionAngle >= 150
  /\ r.maxFlexionAngle >= 150
  /\ r.externalRotationLimit = "none"
  /\ (log # NoLog /\ log.pain <= 2 /\ log.instability <= 2)

canDoPullUps(r, log) ==
  /\ ~r.inSling
  /\ r.maxAbductionAngle >= 150
  /\ r.maxFlexionAngle >= 150
  /\ r.externalRotationLimit = "none"
  /\ (log = NoLog \/ (log.pain <= 2 /\ log.instability <= 2))

upperPullAllowed(r, log) ==
  /\ ~r.inSling
  /\ r.maxAbductionAngle >= 90
  /\ (log = NoLog \/ log.pain <= 3)

\* array.push(x) when the condition holds
PushIf(cond, x) == IF cond THEN <<x>> ELSE <<>>

\* variant: the bike is withheld in a sling, like the elliptical
cardioList_BikeOutOfSling(r, log) ==
  <<"walk">>
    \o PushIf(~r.inSling, "bike")
    \o PushIf(~r.inSling, "elliptical")
    \o PushIf(runAllowed(r, log), "run")
    \o PushIf(r.maxFlexionAngle >= 60, "swim")
    \o PushIf(rowAllowed(r, log), "row")

cardioList(r, log) ==
  <<"walk">> \o <<"bike">>
    \o PushIf(~r.inSling, "elliptical")
    \o PushIf(runAllowed(r, log), "run")
    \o PushIf(r.maxFlexionAngle >= 60, "swim")
    \o PushIf(rowAllowed(r, log), "row")

strengthList(r, log) ==
  <<"legs">>
    \o PushIf(r.maxFlexionAngle >= 60 \/ ~r.inSling, "core")
    \o PushIf(upperPullAllowed(r, log), "upper-pull")
    \o PushIf(canDoOverhead(r, log), "upper-push")

notesList(r, log) ==
  PushIf(isDeloadWeek(log), "Deload week: reduce intensity, focus on recovery")
    \o PushIf(runPaused(r, log), "Running paused due to pain/instability levels")
    \o PushIf(rowAllowed(r, log), "Light rowing only - stop if shoulder discomfort")
    \o PushIf(upperPullAllowed(r, log), "Upper body pulling: keep light, avoid overhead")
    \o PushIf(canDoOverhead(r, log), "Overhead pressing cleared - start light")

allowedActivities(p, log) ==
  LET r == p.restrictions
  IN  [cardio |-> cardioList(r, log),
       strength |-> strengthList(r, log),
       canDoOverhead |-> canDoOverhead(r, log),
       canDoHeavyCarries |-> canDoHeavyCarries(r, log),
       canDoPullUps |-> canDoPullUps(r, log),
       isDeloadWeek |-> isDeloadWeek(log),
       notes |-> notesList(r, log)]

\* Array.prototype.includes
Includes(s, x) == \E i \in 1..Len(s) : s[i] = x

(***************************************************************************)
(* Activity resolver called directly                                       *)
(***************************************************************************)
AngleSamples == {45, 60, 90, 120, 150, 180}

RotationLimits == {"none", "mild", "moderate", "severe"}

AllowedProfiles ==
  {Profile(51, "none", NoDate, Restrictions(sl, nr, no, ab, fl, er)) :
     sl \in BOOLEAN, nr \in BOOLEAN, no \in BOOLEAN,
     ab \in AngleSamples, fl \in AngleSamples, er \in RotationLimits}

\* check-ins as far as the activity resolver reads them
ActivityLogs ==
  {Log(p, i, s, "90-120", "60-90", FALSE) :
     p \in 0..MaxScore, i \in {2, 3, 5, 6, 7}, s \in {7, 8}}

InitAllowed ==
  /\ now \in NowSamples
  /\ profile \in AllowedProfiles
  /\ latestLog \in {NoLog} \cup ActivityLogs
  /\ store = <<>>
  /\ logs = <<>>
  /\ stage = NoStage
  /\ allowed = NoResult
  /\ catalog = <<>>
  /\ workout = NoResult
  /\ weekly = NoResult
  /\ hint = NoHint
  /\ progress = NoResult
  /\ pc = "start"

ResolveAllowed ==
  /\ pc = "start"
  /\ allowed' = allowedActivities(profile, latestLog)
  /\ pc' = "allowed"
  /\ UNCHANGED <<now, profile, store, logs, latestLog, stage, catalog, workout, weekly, hint, progress>>

NextAllowed == ResolveAllowed

SpecAllowed == InitAllowed /\ [][NextAllowed]_vars

(***************************************************************************)
(* Text: a string the code takes apart is a sequence of characters         *)
(***************************************************************************)
Digits == {"0", "1", "2", "3", "4", "5", "6", "7", "8", "9"}

DigitValue(c) ==
  CASE c = "0" -> 0 [] c = "1" -> 1 [] c = "2" -> 2 [] c = "3" -> 3
    [] c = "4" -> 4 [] c = "5" -> 5 [] c = "6" -> 6 [] c = "7" -> 7
    [] c = "8" -> 8 [] c = "9" -> 9

DigitChar(d) ==
  CASE d = 0 -> "0" [] d = 1 -> "1" [] d = 2 -> "2" [] d = 3 -> "3"
    [] d = 4 -> "4" [] d = 5 -> "5" [] d = 6 -> "6" [] d = 7 -> "7"
    [] d = 8 -> "8" [] d = 9 -> "9"

NaN == [nan |-> TRUE]

RECURSIVE SplitFirst(_, _)
\* str.split(sep)[0]: the text before the first separator
SplitFirst(t, sep) ==
  IF t = <<>> \/ t[1] = sep THEN <<>>
  ELSE <<t[1]>> \o SplitFirst(Tail(t), sep)

RECURSIVE LeadingDigits(_)
LeadingDigits(t) ==
  IF t = <<>> \/ t[1] \notin Digits THEN <<>>
  ELSE <<t[1]>> \o LeadingDigits(Tail(t))

RECURSIVE DigitsValue(_, _)
DigitsValue(t, acc) ==
  IF t = <<>> THEN acc ELSE DigitsValue(Tail(t), 10 * acc + DigitValue(t[1]))

RECURSIVE SkipSpaces(_)
SkipSpaces(t) ==
  IF t # <<>> /\ t[1] = " " THEN SkipSpaces(Tail(t)) ELSE t

\* parseInt of an unsigned text: leading blanks, then the leading digits
ParseInt(t) ==
  LET ds == LeadingDigits(SkipSpaces(t))
  IN  IF ds = <<>> THEN NaN ELSE DigitsValue(ds, 0)

RECURSIVE MatchDigits(_)
\* str.match(/(\d+)/): the first run of digits, <<>> when there is none
MatchDigits(t) ==
  IF t = <<>> THEN <<>>
  ELSE IF t[1] \in Digits THEN LeadingDigits(t)
  ELSE MatchDigits(Tail(t))

RECURSIVE NatToText(_)
\* `${n}` of a natural number
NatToText(n) ==
  IF n < 10 THEN <<DigitChar(n)>>
  ELSE NatToText(n \div 10) \o <<DigitChar(n % 10)>>

\* charAt(0).toUpperCase() on the lower-case letters the stage names and the
\* cardio types begin with
ToUpperCase(c) ==
  CASE c = "a" -> "A" [] c = "e" -> "E" [] c = "s" -> "S" [] c = "r" -> "R"
    [] c = "b" -> "B" [] c = "w" -> "W"
    [] OTHER -> c

Stages == {"acute", "early-rehab", "strengthening", "return-to-sport"}

\* the characters of a stage name
StageText(stg) ==
  CASE stg = "acute" -> <<"a", "c", "u", "t", "e">>
    [] stg = "early-rehab" ->
         <<"e", "a", "r", "l", "y", "-", "r", "e", "h", "a", "b">>
    [] stg = "strengthening" ->
         <<"s", "t", "r", "e", "n", "g", "t", "h", "e", "n", "i", "n", "g">>
    [] stg = "return-to-sport" ->
         <<"r", "e", "t", "u", "r", "n", "-", "t", "o", "-", "s", "p", "o", "r", "t">>

(***************************************************************************)
(* rehabPlan                                                               *)
(***************************************************************************)
\* exercises.filter(e => e.category === 'rehab')
getRehabExercises == SelectSeq(catalog, LAMBDA e : e.category = "rehab")

currentFlexion(log) ==
  IF log # NoLog THEN bucketToAngle(log.flexionBucket) ELSE 30

currentAbduction(log) ==
  IF log # NoLog THEN bucketToAngle(log.abductionBucket) ELSE 30

\* variant: without a check-in the pain counts as 0
currentPain_NoLogPainFree(log) == IF log # NoLog THEN log.pain ELSE 0

\* latestLog?.pain ?? 5
currentPain(log) == IF log # NoLog THEN log.pain ELSE 5

\* variant: the pain cap on difficulty starts only above pain 6
keepExercise_PainAbove6(ex, stg, p, log) ==
  /\ ~(ex.minFlexionAngle > currentFlexion(log))
  /\ ~(ex.minAbductionAngle > currentAbduction(log))
  /\ ~(ex.requiresOverhead /\ p.restrictions.noOverhead)
  /\ ~(ex.requiresOverhead /\ currentFlexion(log) < 120)
  /\ ~(ex.requiresShoulderLoading /\ p.restrictions.inSling)
  /\ ~(ex.requiresExternalRotation /\ p.restrictions.externalRotationLimit = "severe")
  /\ ~(stg = "acute" /\ ex.difficulty > 2)
  /\ ~(stg = "early-rehab" /\ ex.difficulty > 3)
  /\ ~(currentPain(log) > 6 /\ ex.difficulty > 2)

\* variant: the later stages drop the easiest exercises
keepExercise_HarderLater(ex, stg, p, log) ==
  /\ ~(ex.minFlexionAngle > currentFlexion(log))
  /\ ~(ex.minAbductionAngle > currentAbduction(log))
  /\ ~(ex.requiresOverhead /\ p.restrictions.noOverhead)
  /\ ~(ex.requiresOverhead /\ currentFlexion(log) < 120)
  /\ ~(ex.requiresShoulderLoading /\ p.restrictions.inSling)
  /\ ~(ex.requiresExternalRotation /\ p.restrictions.externalRotationLimit = "severe")
  /\ ~(stg = "acute" /\ ex.difficulty > 2)
  /\ ~(stg = "early-rehab" /\ ex.difficulty > 3)
  /\ ~(stg \in {"strengthening", "return-to-sport"} /\ ex.difficulty < 2)
  /\ ~(currentPain(log) >= 6 /\ ex.difficulty > 2)

\* the predicate of rehabExercises.filter: no rule returns false
keepExercise(ex, stg, p, log) ==
  /\ ~(ex.minFlexionAngle > currentFlexion(log))
  /\ ~(ex.minAbductionAngle > currentAbduction(log))
  /\ ~(ex.requiresOverhead /\ p.restrictions.noOverhead)
  /\ ~(ex.requiresOverhead /\ currentFlexion(log) < 120)
  /\ ~(ex.requiresShoulderLoading /\ p.restrictions.inSling)
  /\ ~(ex.requiresExternalRotation /\ p.restrictions.externalRotationLimit = "severe")
  /\ ~(stg = "acute" /\ ex.difficulty > 2)
  /\ ~(stg = "early-rehab" /\ ex.difficulty > 3)
  /\ ~(currentPain(log) >= 6 /\ ex.difficulty > 2)

filteredExercises(stg, p, log) ==
  SelectSeq(getRehabExercises, LAMBDA ex : keepExercise(ex, stg, p, log))

exerciseCount(stg) ==
  CASE stg = "acute" -> 3
    [] stg = "early-rehab" -> 4
    [] stg = "strengthening" -> 5
    [] stg = "return-to-sport" -> 6

targetDiff(stg) ==
  IF stg = "acute" THEN 1 ELSE IF stg = "early-rehab" THEN 2 ELSE 3

Abs(x) == IF x < 0 THEN -x ELSE x

\* the sort key of the comparator: distance to the stage's target difficulty
Distance(ex, stg) == Abs(ex.difficulty - targetDiff(stg))

RECURSIVE InsertStable_AheadOfTies(_, _, _)
\* variant: x goes ahead of the elements with the same key
InsertStable_AheadOfTies(x, s, stg) ==
  IF s = <<>> THEN <<x>>
  ELSE IF Distance(s[1], stg) < Distance(x, stg)
    THEN <<s[1]>> \o InsertStable_AheadOfTies(x, Tail(s), stg)
  ELSE <<x>> \o s

RECURSIVE InsertStable(_, _, _)
\* x goes behind every element whose key is not larger: the sort is stable
InsertStable(x, s, stg) ==
  IF s = <<>> THEN <<x>>
  ELSE IF Distance(s[1], stg) <= Distance(x, stg)
    THEN <<s[1]>> \o InsertStable(x, Tail(s), stg)
  ELSE <<x>> \o s

RECURSIVE SortByDistance(_, _)
\* [...s].sort((a, b) => distance(a) - distance(b))
SortByDistance(s, stg) ==
  IF s = <<>> THEN <<>>
  ELSE InsertStable(s[Len(s)], SortByDistance(SubSeq(s, 1, Len(s) - 1), stg), stg)

sorted(stg, p, log) == SortByDistance(filteredExercises(stg, p, log), stg)

\* variant: the slice keeps one exercise more than the stage's count
selected_OneMore(stg, p, log) ==
  SliceFirst(sorted(stg, p, log), exerciseCount(stg) + 1)

selected(stg, p, log) == SliceFirst(sorted(stg, p, log), exerciseCount(stg))

\* '' || d and undefined || d
OrDefault(t, d) == IF t = <<>> THEN d ELSE t

\* one entry of selectedExercises; reps is <<>> for undefined
WorkoutExercise(ex, defaultReps) ==
  [exercise |-> ex,
   sets |-> ParseInt(OrDefault(SplitFirst(ex.sets, "-"), <<"3">>)),
   reps |-> IF ex.reps # <<>>
              THEN <<ParseInt(OrDefault(SplitFirst(ex.reps, "-"), defaultReps))>>
              ELSE <<>>,
   duration |-> ex.duration]

selectedExercises(stg, p, log) ==
  LET sel == selected(stg, p, log)
  IN  [i \in 1..Len(sel) |-> WorkoutExercise(sel[i], <<"1", "0">>)]

\* we.reps || 10
RepsOrTen(we) == IF we.reps = <<>> \/ we.reps[1] = 0 THEN 10 ELSE we.reps[1]

\* the minutes one exercise adds to the total, in sixtieths of a minute
ExerciseSeconds(we) ==
  IF we.duration # <<>>
    THEN LET match == MatchDigits(we.duration)
         IN  IF match # <<>> THEN DigitsValue(match, 0) * we.sets ELSE 120
    ELSE we.sets * RepsOrTen(we) * 3

RECURSIVE totalSeconds(_)
totalSeconds(wes) ==
  IF wes = <<>> THEN 0 ELSE ExerciseSeconds(wes[1]) + totalSeconds(Tail(wes))

\* variant: no minutes are added for transitions
RoundedMinutes_NoTransitions(seconds) == (seconds + 30) \div 60

\* Math.round(totalMinutes + 5) for totalMinutes = seconds / 60
RoundedMinutes(seconds) == (seconds + 5 * 60 + 30) \div 60

rehabPlan(stg, p, log) ==
  LET wes == selectedExercises(stg, p, log)
      text == StageText(stg)
  IN  [id |-> now,
       name |-> <<ToUpperCase(text[1])>> \o Tail(text)
                  \o <<" ", "R", "e", "h", "a", "b", " ", "S", "e", "s", "s", "i", "o", "n">>,
       stage |-> stg,
       exercises |-> wes,
       totalDuration |-> NatToText(RoundedMinutes(totalSeconds(wes)))
                           \o <<" ", "m", "i", "n">>,
       notes |-> IF currentPain(log) >= 5
                   THEN <<"Go gentle today - pain is elevated">>
                   ELSE <<>>]

(***************************************************************************)
(* Rehab plan generator called directly                                    *)
(***************************************************************************)
Exercise(id, cat, area, diff, oh, load, er, ab, fl, sets, reps, dur) ==
  [id |-> id, category |-> cat, targetArea |-> area, difficulty |-> diff,
   requiresOverhead |-> oh, requiresShoulderLoading |-> load,
   requiresExternalRotation |-> er,
   minAbductionAngle |-> ab, minFlexionAngle |-> fl,
   sets |-> sets, reps |-> reps, duration |-> dur]

\* a library of one rehab exercise, for every combination of the attributes
\* the filter reads
ShapeCatalogs ==
  {<<Exercise("probe", "rehab", "shoulder", d, oh, ld, er, ab, fl,
              <<"2", "-", "3">>, <<"1", "0">>, <<>>)>> :
     d \in 1..5, oh \in BOOLEAN, ld \in BOOLEAN, er \in BOOLEAN,
     ab \in {0, 90}, fl \in {0, 90, 120}}

\* a library in the style of lib/exercises.ts: nine rehab exercises of mixed
\* difficulty between entries of other categories
FullCatalog ==
  <<Exercise("pendulum", "rehab", "shoulder", 1, FALSE, FALSE, FALSE, 0, 0,
             <<"2", "-", "3">>, <<>>, <<"3", "0", " ", "s", "e", "c">>),
    Exercise("prone-y", "rehab", "shoulder", 4, TRUE, TRUE, FALSE, 120, 120,
             <<"3">>, <<"8", "-", "1", "0">>, <<>>),
    Exercise("passive-flexion", "rehab", "shoulder", 1, FALSE, FALSE, FALSE, 0, 0,
             <<"2">>, <<"1", "0", "-", "1", "5">>, <<>>),
    Exercise("leg-press", "strength", "legs", 2, FALSE, FALSE, FALSE, 0, 0,
             <<"3">>, <<"1", "2">>, <<>>),
    Exercise("band-row", "rehab", "shoulder", 3, FALSE, TRUE, FALSE, 0, 90,
             <<"3">>, <<"1", "2">>, <<>>),
    Exercise("wand-flexion", "rehab", "shoulder", 2, FALSE, FALSE, FALSE, 0, 0,
             <<>>, <<"1", "0">>, <<>>),
    Exercise("isometric-er", "rehab", "shoulder", 2, FALSE, FALSE, TRUE, 0, 0,
             <<"3">>, <<>>, <<"h", "o", "l", "d">>),
    Exercise("walk", "cardio", "full-body", 1, FALSE, FALSE, FALSE, 0, 0,
             <<>>, <<>>, <<"2", "0", " ", "m", "i", "n">>),
    Exercise("band-er", "rehab", "shoulder", 3, FALSE, TRUE, TRUE, 0, 0,
             <<"2", "-", "3">>, <<"1", "2", "-", "1", "5">>, <<>>),
    Exercise("scapular-squeeze", "rehab", "shoulder", 1, FALSE, FALSE, FALSE, 0, 0,
             <<"2">>, <<"1", "0">>, <<>>),
    Exercise("wall-slide", "rehab", "shoulder", 2, FALSE, FALSE, FALSE, 90, 90,
             <<"3">>, <<"1", "0">>, <<>>),
    Exercise("table-slide", "rehab", "shoulder", 1, FALSE, FALSE, FALSE, 0, 0,
             <<"2">>, <<"1", "0">>, <<>>)>>

RECURSIVE SubLists(_)
\* every library obtained by leaving entries out, order kept
SubLists(s) ==
  IF s = <<>> THEN {<<>>}
  ELSE LET rest == SubLists(Tail(s))
       IN  rest \cup {<<s[1]>> \o t : t \in rest}

RehabProfiles ==
  {Profile(51, "none", NoDate, Restrictions(sl, FALSE, no, 90, 90, er)) :
     sl \in BOOLEAN, no \in BOOLEAN, er \in {"moderate", "severe"}}

\* check-ins as far as the rehab plan reads them
RehabLogs ==
  {Log(p, 3, 3, f, a, FALSE) :
     p \in {4, 5, 6}, f \in {"<60", "90-120", "120-150"}, a \in {"<60", "90-120"}}

\* an unrestricted and a fully restricted profile
PlanProfiles ==
  {Profile(51, "none", NoDate, Restrictions(FALSE, FALSE, FALSE, 150, 150, "none")),
   Profile(51, "none", NoDate, Restrictions(TRUE, TRUE, TRUE, 45, 45, "severe"))}

\* no check-in, a good day, a painful day
PlanLogs ==
  {NoLog,
   Log(2, 1, 1, "150+", "150+", FALSE),
   Log(6, 3, 3, "90-120", "90-120", FALSE)}

InitRehab ==
  /\ now \in NowSamples
  /\ stage \in Stages
  /\ \/ /\ catalog \in ShapeCatalogs
        /\ profile \in RehabProfiles
        /\ latestLog \in {NoLog} \cup RehabLogs
     \/ /\ catalog \in SubLists(FullCatalog)
        /\ profile \in PlanProfiles
        /\ latestLog \in PlanLogs
  /\ store = <<>>
  /\ logs = <<>>
  /\ allowed = NoResult
  /\ workout = NoResult
  /\ weekly = NoResult
  /\ hint = NoHint
  /\ progress = NoResult
  /\ pc = "start"

PlanRehab ==
  /\ pc = "start"
  /\ workout' = rehabPlan(stage, profile, latestLog)
  /\ pc' = "rehab"
  /\ UNCHANGED <<now, profile, store, logs, latestLog, stage, allowed, catalog, weekly, hint, progress>>

NextRehab == PlanRehab

SpecRehab == InitRehab /\ [][NextRehab]_vars

(***************************************************************************)
(* The log page and the rehab page on top of the logs table                *)
(***************************************************************************)
LimitRows == 14

RECURSIVE OrderByDateDesc(_)
\* .order('date', { ascending: false }) over rows with distinct dates
OrderByDateDesc(rows) ==
  IF rows = {} THEN <<>>
  ELSE LET newest == CHOOSE r \in rows : \A q \in rows : q.date <= r.date
       IN  <<newest>> \o OrderByDateDesc(rows \ {newest})

Range(s) == {s[i] : i \in 1..Len(s)}

DatedRow(d, l) ==
  [date |-> d, pain |-> l.pain, instability |-> l.instability,
   sleepImpact |-> l.sleepImpact, flexionBucket |-> l.flexionBucket,
   abductionBucket |-> l.abductionBucket, slingWorn |-> l.slingWorn]

\* the day of the first check-in and of the check-in after the last one
NextLogDate == profile.injuryDate + Len(store) + 1

\* 13 weeks after the injury, out of the sling: the logs decide the stage
PageProfiles ==
  {Profile(9, "none", NoDate, MockRestrictions(FALSE))}

InitPage ==
  /\ now \in NowSamples
  /\ profile \in PageProfiles
  /\ store = <<>>
  /\ logs = <<>>
  /\ latestLog = NoLog
  /\ stage = NoStage
  /\ allowed = NoResult
  /\ catalog = FullCatalog
  /\ workout = NoResult
  /\ weekly = NoResult
  /\ hint = NoHint
  /\ progress = NoResult
  /\ pc = "log"

\* log page, handleSubmit: upsert on (user_id, date) of the form's values;
\* the user is on the log page, the rehab page is not mounted
handleSubmit ==
  /\ \E l \in DayLogs :
       \/ /\ Len(store) < MaxLogs
          /\ store' = Append(store, DatedRow(NextLogDate, l))
       \/ \E k \in 1..Len(store) :
            store' = [store EXCEPT ![k] = DatedRow(store[k].date, l)]
  /\ logs' = <<>>
  /\ latestLog' = NoLog
  /\ stage' = NoStage
  /\ workout' = NoResult
  /\ pc' = "log"
  /\ UNCHANGED <<now, profile, allowed, catalog, weekly, hint, progress>>

\* rehab page, loadData: the 14 newest rows, newest first
loadData ==
  /\ pc = "log"
  /\ logs' = SliceFirst(OrderByDateDesc(Range(store)), LimitRows)
  /\ pc' = "loaded"
  /\ UNCHANGED <<now, profile, store, latestLog, stage, allowed, catalog, workout, weekly, hint, progress>>

\* rehab page, the effect on [profile, logs, loading]
planEffect ==
  /\ pc = "loaded"
  /\ stage' = currentRecoveryStage(profile, logs)
  /\ latestLog' = IF Len(logs) > 0 THEN logs[1] ELSE NoLog
  /\ workout' = rehabPlan(stage', profile, latestLog')
  /\ pc' = "planned"
  /\ UNCHANGED <<now, profile, store, logs, allowed, catalog, weekly, hint, progress>>

NextPage == handleSubmit \/ loadData \/ planEffect

SpecPage == InitPage /\ [][NextPage]_vars

(***************************************************************************)
(* fitnessPlan                                                             *)
(***************************************************************************)
\* the characters of a cardio type and of the id of a cardio exercise
TextOf(str) ==
  CASE str = "walk" -> <<"w", "a", "l", "k">>
    [] str = "bike" -> <<"b", "i", "k", "e">>
    [] str = "elliptical" -> <<"e", "l", "l", "i", "p", "t", "i", "c", "a", "l">>
    [] str = "run" -> <<"r", "u", "n">>
    [] str = "swim" -> <<"s", "w", "i", "m">>
    [] str = "row" -> <<"r", "o", "w">>
    [] str = "swim-no-arms" -> <<"s", "w", "i", "m", "-", "n", "o", "-", "a", "r", "m", "s">>
    [] str = "row-light" -> <<"r", "o", "w", "-", "l", "i", "g", "h", "t">>
    [] str = "treadmill-walk" -> <<"t", "r", "e", "a", "d", "m", "i", "l", "l", "-", "w", "a", "l", "k">>

RECURSIVE StartsWith(_, _)
StartsWith(t, pat) ==
  \/ pat = <<>>
  \/ t # <<>> /\ t[1] = pat[1] /\ StartsWith(Tail(t), Tail(pat))

RECURSIVE TextIncludes(_, _)
\* String.prototype.includes
TextIncludes(t, pat) ==
  \/ StartsWith(t, pat)
  \/ t # <<>> /\ TextIncludes(Tail(t), pat)

RECURSIVE RemoveFirst(_, _)
\* str.replace(pat, ''): the first occurrence of pat is taken out
RemoveFirst(t, pat) ==
  IF t = <<>> THEN <<>>
  ELSE IF StartsWith(t, pat) THEN SubSeq(t, Len(pat) + 1, Len(t))
  ELSE <<t[1]>> \o RemoveFirst(Tail(t), pat)

\* exercises.filter(e => e.category === 'cardio')
getCardioExercises == SelectSeq(catalog, LAMBDA e : e.category = "cardio")

\* exercises.filter(e => e.category === 'strength')
getStrengthExercises == SelectSeq(catalog, LAMBDA e : e.category = "strength")

\* variant: the first week is week 0
weekNumber_FromZero(p) == weeksSince(p.createdAt)

weekNumber(p) == weeksSince(p.createdAt) + 1

\* the switch on goal.type; targetCardioMinutes stays 0 for any other type
baseCardioMinutes(goal, week) ==
  CASE goal.type = "half-marathon" -> Min(180, 60 + week * 10)
    [] goal.type = "10k" -> Min(120, 45 + week * 8)
    [] goal.type = "5k" -> Min(90, 30 + week * 6)
    [] goal.type \in {"general-conditioning", "maintain-fitness"} -> 90
    [] goal.type = "strength" -> 60
    [] goal.type = "weight-loss" -> 150
    [] OTHER -> 0

\* Math.floor(minutes * 0.6); in double arithmetic this is the integer
\* quotient of 6 * minutes by 10 for every whole number of minutes up to 400
DeloadMinutes(minutes) == (minutes * 6) \div 10

\* variant: the deload multiplier is never applied
targetCardioMinutes_NoDeload(p, log) ==
  baseCardioMinutes(p.goal, weekNumber(p))

targetCardioMinutes(p, log) ==
  LET minutes == baseCardioMinutes(p.goal, weekNumber(p))
  IN  IF isDeloadWeek(log) THEN DeloadMinutes(minutes) ELSE minutes

MaxWorkouts == 6

workoutsPerWeek(goal) == Min(goal.daysPerWeek, MaxWorkouts)

\* variant: the share of cardio sessions is rounded down
targetCardioSessions_RoundDown(goal) == (workoutsPerWeek(goal) * 6) \div 10

\* Math.ceil(workoutsPerWeek * 0.6); exact in double arithmetic for 0..7
targetCardioSessions(goal) == (workoutsPerWeek(goal) * 6 + 9) \div 10

targetStrengthSessions(goal) == workoutsPerWeek(goal) - targetCardioSessions(goal)

\* variant: running stays the primary cardio type whenever it is not
\* restricted in the profile
primaryCardio_RunUnlessRestricted(p, log) ==
  IF ~p.restrictions.noRunning /\ ~p.restrictions.inSling THEN "run"
  ELSE IF Includes(allowedActivities(p, log).cardio, "bike") THEN "bike"
  ELSE IF Includes(allowedActivities(p, log).cardio, "elliptical") THEN "elliptical"
  ELSE "walk"

primaryCardio(p, log) ==
  IF Includes(allowedActivities(p, log).cardio, "run") THEN "run"
  ELSE IF Includes(allowedActivities(p, log).cardio, "bike") THEN "bike"
  ELSE IF Includes(allowedActivities(p, log).cardio, "elliptical") THEN "elliptical"
  ELSE "walk"

\* ex.id.replace('-no-arms', '').replace('-light', '')
CardioTypeOfId(id) ==
  RemoveFirst(RemoveFirst(TextOf(id), <<"-", "n", "o", "-", "a", "r", "m", "s">>), <<"-", "l", "i", "g", "h", "t">>)

cardioExercises(p, log) ==
  LET cardio == allowedActivities(p, log).cardio
  IN  SelectSeq(getCardioExercises,
        LAMBDA ex :
          /\ \E i \in 1..Len(cardio) : TextOf(cardio[i]) = CardioTypeOfId(ex.id)
          /\ ~(ex.minFlexionAngle > currentFlexion(log)))

\* variant: shoulder loading is not looked at
strengthExercises_LoadsInSling(p, log) ==
  SelectSeq(getStrengthExercises,
    LAMBDA ex :
      /\ ~(ex.targetArea = "shoulder")
      /\ ~(ex.requiresOverhead /\ ~canDoOverhead(p.restrictions, log))
      /\ ~(ex.minFlexionAngle > currentFlexion(log)))

strengthExercises(p, log) ==
  SelectSeq(getStrengthExercises,
    LAMBDA ex :
      /\ ~(ex.targetArea = "shoulder")
      /\ ~(ex.requiresOverhead /\ ~canDoOverhead(p.restrictions, log))
      /\ ~(ex.requiresShoulderLoading /\ p.restrictions.inSling)
      /\ ~(ex.minFlexionAngle > currentFlexion(log)))

\* cardioExercises.find(e => e.id.includes(primaryCardio)) || cardioExercises[0];
\* <<>> when there is none
cardioEx(p, log) ==
  LET found == SelectSeq(cardioExercises(p, log),
                 LAMBDA e : TextIncludes(TextOf(e.id), TextOf(primaryCardio(p, log))))
  IN  IF found # <<>> THEN <<found[1]>>
      ELSE SliceFirst(cardioExercises(p, log), 1)

intensity(log) == IF isDeloadWeek(log) THEN "easy" ELSE "moderate"

selectedStrength(p, log) ==
  SliceFirst(SelectSeq(strengthExercises(p, log), LAMBDA e : e.targetArea = "legs"), 3)
    \o SliceFirst(SelectSeq(strengthExercises(p, log), LAMBDA e : e.targetArea = "core"), 2)

\* what the loop over the days reads, computed once before it
LoopConstants(p, log) ==
  [workoutsPerWeek |-> workoutsPerWeek(p.goal),
   targetCardioSessions |-> targetCardioSessions(p.goal),
   targetStrengthSessions |-> targetStrengthSessions(p.goal),
   targetCardioMinutes |-> targetCardioMinutes(p, log),
   primaryCardio |-> primaryCardio(p, log),
   cardioEx |-> cardioEx(p, log),
   selectedStrength |-> selectedStrength(p, log),
   minutesPerDay |-> p.goal.minutesPerDay,
   intensity |-> intensity(log)]

cardioWorkout(day, c) ==
  LET cardioMinutes == c.targetCardioMinutes \div c.targetCardioSessions
      text == TextOf(c.primaryCardio)
  IN  [id |-> <<"f", "i", "t", "n", "e", "s", "s", "-", "c", "a", "r", "d", "i", "o", "-">> \o NatToText(day),
       name |-> <<ToUpperCase(text[1])>> \o Tail(text) \o <<" ", "S", "e", "s", "s", "i", "o", "n">>,
       type |-> "cardio",
       exercises |-> <<[exercise |-> c.cardioEx[1], sets |-> 1,
                        duration |-> NatToText(cardioMinutes) \o <<" ", "m", "i", "n">>]>>,
       totalDuration |-> NatToText(cardioMinutes) \o <<" ", "m", "i", "n">>,
       cardioType |-> c.primaryCardio,
       intensity |-> c.intensity]

strengthWorkout(day, c) ==
  [id |-> <<"f", "i", "t", "n", "e", "s", "s", "-", "s", "t", "r", "e", "n", "g", "t", "h", "-">> \o NatToText(day),
   name |-> <<"L", "e", "g", "s", " ", "&", " ", "C", "o", "r", "e">>,
   type |-> IF day = 1 THEN "legs" ELSE "core",
   exercises |-> [i \in 1..Len(c.selectedStrength) |->
                    WorkoutExercise(c.selectedStrength[i], <<"1", "2">>)],
   totalDuration |-> NatToText(Min(c.minutesPerDay, 45)) \o <<" ", "m", "i", "n">>,
   intensity |-> c.intensity]

DaysInWeek == 7

\* variant: Wednesday and Saturday are planned like any other day
isRestDay_None(day) == FALSE

\* if (day === 3 || day === 6) continue
isRestDay(day) == day = 3 \/ day = 6

isCardioDay(day, strengthPlanned, c) ==
  day % 2 = 0 \/ strengthPlanned >= c.targetStrengthSessions

RECURSIVE scheduleFrom(_, _, _, _, _)
\* the loop over the days from `day` on, with the sessions planned so far
scheduleFrom(day, cardioPlanned, strengthPlanned, workouts, c) ==
  IF ~(day < DaysInWeek /\ cardioPlanned + strengthPlanned < c.workoutsPerWeek)
    THEN [workouts |-> workouts, strengthSessionsPlanned |-> strengthPlanned]
  ELSE IF isRestDay(day)
    THEN scheduleFrom(day + 1, cardioPlanned, strengthPlanned, workouts, c)
  ELSE IF isCardioDay(day, strengthPlanned, c) /\ cardioPlanned < c.targetCardioSessions
    THEN IF c.cardioEx # <<>>
           THEN scheduleFrom(day + 1, cardioPlanned + 1, strengthPlanned,
                  Append(workouts, [day |-> day, fitness |-> cardioWorkout(day, c)]), c)
           ELSE scheduleFrom(day + 1, cardioPlanned, strengthPlanned, workouts, c)
  ELSE IF strengthPlanned < c.targetStrengthSessions
    THEN IF Len(c.selectedStrength) > 0
           THEN scheduleFrom(day + 1, cardioPlanned, strengthPlanned + 1,
                  Append(workouts, [day |-> day, fitness |-> strengthWorkout(day, c)]), c)
           ELSE scheduleFrom(day + 1, cardioPlanned, strengthPlanned, workouts, c)
  ELSE scheduleFrom(day + 1, cardioPlanned, strengthPlanned, workouts, c)

\* the logs argument is not read; neither are daysToGoal and weeksToGoal
fitnessPlan(p, log, ls) ==
  LET week == scheduleFrom(0, 0, 0, <<>>, LoopConstants(p, log))
  IN  [weekNumber |-> weekNumber(p),
       startDate |-> now,
       workouts |-> week.workouts,
       totalCardioMinutes |-> targetCardioMinutes(p, log),
       totalStrengthSessions |-> week.strengthSessionsPlanned]

\* the plan of the week for every goal, schedule, start week, restriction set
\* and check-in over a few libraries, and for every library cut out of a
\* mixed one
GoalTypes ==
  {"half-marathon", "10k", "5k", "general-conditioning", "maintain-fitness",
   "strength", "weight-loss"}

\* the range of the days-per-week slider
DaysPerWeekChoices == 2..6

MinutesPerDayChoices == {30, 60}

\* profiles created 0, 1, 8, 9, 11 and 12 whole weeks before now
CreatedDates == {100, 90, 44, 37, 23, 16}

Goal(type, days, minutes) ==
  [type |-> type, daysPerWeek |-> days, minutesPerDay |-> minutes]

FitnessProfile(created, goal, r) ==
  [injuryDate |-> 51, surgeryStatus |-> "none", surgeryDate |-> NoDate,
   restrictions |-> r, createdAt |-> created, goal |-> goal]

FitnessRestrictions ==
  {Restrictions(FALSE, FALSE, FALSE, 180, 180, "none"),
   MockRestrictions(FALSE),
   MockRestrictions(TRUE),
   Restrictions(FALSE, TRUE, FALSE, 150, 150, "none"),
   Restrictions(TRUE, TRUE, TRUE, 45, 45, "severe"),
   Restrictions(FALSE, FALSE, TRUE, 60, 60, "mild")}

\* no check-in, a good day, a day that pauses running, and three days that
\* call for a deload (pain, instability, sleep)
FitnessLogs ==
  {NoLog,
   Log(3, 2, 2, "150+", "150+", FALSE),
   Log(6, 3, 3, "90-120", "90-120", FALSE),
   Log(8, 3, 3, "90-120", "90-120", FALSE),
   Log(2, 7, 2, "60-90", "60-90", TRUE),
   Log(3, 2, 8, "<60", "<60", FALSE)}

CardioCatalog ==
  <<Exercise("walk", "cardio", "full-body", 1, FALSE, FALSE, FALSE, 0, 0,
             <<>>, <<>>, <<"2", "0", " ", "m", "i", "n">>),
    Exercise("run", "cardio", "full-body", 3, FALSE, FALSE, FALSE, 0, 60,
             <<>>, <<>>, <<"2", "0", " ", "m", "i", "n">>),
    Exercise("bike", "cardio", "legs", 1, FALSE, FALSE, FALSE, 0, 0,
             <<>>, <<>>, <<"3", "0", " ", "m", "i", "n">>),
    Exercise("swim-no-arms", "cardio", "legs", 2, FALSE, FALSE, FALSE, 0, 60,
             <<>>, <<>>, <<"2", "0", " ", "m", "i", "n">>),
    Exercise("elliptical", "cardio", "full-body", 2, FALSE, FALSE, FALSE, 0, 60,
             <<>>, <<>>, <<"2", "0", " ", "m", "i", "n">>),
    Exercise("row-light", "cardio", "full-body", 3, FALSE, TRUE, FALSE, 60, 90,
             <<>>, <<>>, <<"1", "0", " ", "m", "i", "n">>)>>

StrengthCatalog ==
  <<Exercise("squat", "strength", "legs", 2, FALSE, FALSE, FALSE, 0, 0,
             <<"3">>, <<"1", "2", "-", "1", "5">>, <<>>),
    Exercise("plank", "strength", "core", 2, FALSE, TRUE, FALSE, 0, 60,
             <<"3">>, <<>>, <<"3", "0", " ", "s", "e", "c">>),
    Exercise("lunge", "strength", "legs", 2, FALSE, FALSE, FALSE, 0, 0,
             <<"2", "-", "3">>, <<"1", "0">>, <<>>),
    Exercise("overhead-press", "strength", "shoulder", 4, TRUE, TRUE, FALSE, 120, 120,
             <<"3">>, <<"8">>, <<>>),
    Exercise("leg-press", "strength", "legs", 2, FALSE, FALSE, FALSE, 0, 0,
             <<>>, <<"1", "2">>, <<>>),
    Exercise("dead-bug", "strength", "core", 1, FALSE, FALSE, FALSE, 0, 0,
             <<"3">>, <<"1", "0", "-", "1", "2">>, <<>>),
    Exercise("overhead-squat", "strength", "legs", 4, TRUE, TRUE, FALSE, 120, 120,
             <<"3">>, <<"8">>, <<>>),
    Exercise("calf-raise", "strength", "legs", 1, FALSE, FALSE, FALSE, 0, 0,
             <<"3">>, <<"1", "5">>, <<>>),
    Exercise("bird-dog", "strength", "core", 1, FALSE, FALSE, FALSE, 0, 0,
             <<"2">>, <<"1", "0">>, <<>>),
    Exercise("side-plank", "strength", "core", 2, FALSE, TRUE, FALSE, 0, 0,
             <<"2">>, <<>>, <<"2", "0", " ", "s", "e", "c">>)>>

\* a library whose strength entries start with the overhead and the loaded
\* ones
OverheadFirstCatalog ==
  SliceFirst(CardioCatalog, 3)
    \o SelectSeq(StrengthCatalog, LAMBDA e : e.requiresShoulderLoading)
    \o SelectSeq(StrengthCatalog, LAMBDA e : ~e.requiresShoulderLoading)

\* the whole library, one without cardio, one without strength work, one
\* without a bike, one that leads with overhead work, and an empty one
FitnessCatalogs ==
  {FullCatalog \o CardioCatalog \o StrengthCatalog,
   OverheadFirstCatalog,
   StrengthCatalog,
   CardioCatalog,
   SelectSeq(CardioCatalog, LAMBDA e : e.id # "bike") \o StrengthCatalog,
   <<>>}

MixedCatalog ==
  SliceFirst(CardioCatalog, 3) \o SliceFirst(StrengthCatalog, 6)

InitFitness ==
  /\ now \in NowSamples
  /\ \/ /\ catalog = FullCatalog \o CardioCatalog \o StrengthCatalog
        /\ profile \in {FitnessProfile(c, Goal(t, 4, 45), r) :
                          c \in CreatedDates, t \in GoalTypes,
                          r \in {MockRestrictions(FALSE)}}
        /\ latestLog \in FitnessLogs
     \/ /\ catalog \in FitnessCatalogs
        /\ profile \in {FitnessProfile(100, Goal(t, d, m), r) :
                          t \in {"general-conditioning", "half-marathon"},
                          d \in DaysPerWeekChoices, m \in MinutesPerDayChoices,
                          r \in FitnessRestrictions}
        /\ latestLog \in FitnessLogs
     \/ /\ catalog \in SubLists(MixedCatalog)
        /\ profile \in {FitnessProfile(90, Goal("5k", d, 30), r) :
                          d \in DaysPerWeekChoices,
                          r \in {MockRestrictions(FALSE), MockRestrictions(TRUE)}}
        /\ latestLog \in {NoLog, Log(8, 3, 3, "90-120", "90-120", FALSE)}
  /\ logs = IF latestLog = NoLog THEN <<>> ELSE <<latestLog>>
  /\ store = <<>>
  /\ stage = NoStage
  /\ allowed = NoResult
  /\ workout = NoResult
  /\ weekly = NoResult
  /\ hint = NoHint
  /\ progress = NoResult
  /\ pc = "start"

PlanFitness ==
  /\ pc = "start"
  /\ weekly' = fitnessPlan(profile, latestLog, logs)
  /\ pc' = "fitness"
  /\ UNCHANGED <<now, profile, store, logs, latestLog, stage, allowed, catalog, workout, hint, progress>>

NextFitness == PlanFitness

SpecFitness == InitFitness /\ [][NextFitness]_vars

(***************************************************************************)
(* suggestNextMilestone                                                    *)
(***************************************************************************)
\* variant: the sleep hint is offered before the sling hint
laterMilestone_SleepFirst(p, log) ==
  IF log.sleepImpact > 3 THEN "Work toward pain-free sleep"
  ELSE IF log.slingWorn THEN "First day without sling (when cleared by provider)"
  ELSE IF ~p.restrictions.noRunning /\ log.pain <= 3 THEN "First pain-free run"
  ELSE "Continue strengthening toward full recovery"

\* the checks that follow the range-of-motion milestones
laterMilestone(p, log) ==
  IF log.slingWorn THEN "First day without sling (when cleared by provider)"
  ELSE IF log.sleepImpact > 3 THEN "Work toward pain-free sleep"
  ELSE IF ~p.restrictions.noRunning /\ log.pain <= 3 THEN "First pain-free run"
  ELSE "Continue strengthening toward full recovery"

suggestNextMilestone(p, log) ==
  IF log = NoLog THEN "Complete your first daily log to track progress"
  ELSE LET flexion == bucketToAngle(log.flexionBucket)
           abduction == bucketToAngle(log.abductionBucket)
       IN  IF flexion < 90 THEN "Work toward forward flexion to 90 degrees"
           ELSE IF abduction < 90 THEN "Work toward abduction to 90 degrees"
           ELSE IF flexion < 120 THEN "Work toward forward flexion to 120 degrees"
           ELSE IF abduction < 120 THEN "Work toward abduction to 120 degrees"
           ELSE laterMilestone(p, log)

\* the hint for either setting of noRunning and for no check-in or a check-in
\* with every pair of buckets, pain and sleep impact on both sides of 3, sling
\* worn or not
MilestoneProfiles ==
  {Profile(51, "none", NoDate, Restrictions(FALSE, nr, TRUE, 90, 90, "moderate")) :
     nr \in BOOLEAN}

MilestoneLogs ==
  {Log(p, 3, s, f, a, w) :
     p \in {3, 4}, s \in {3, 4}, f \in BucketInputs, a \in BucketInputs, w \in BOOLEAN}

InitMilestone ==
  /\ now \in NowSamples
  /\ profile \in MilestoneProfiles
  /\ latestLog \in {NoLog} \cup MilestoneLogs
  /\ logs = IF latestLog = NoLog THEN <<>> ELSE <<latestLog>>
  /\ store = <<>>
  /\ catalog = <<>>
  /\ stage = NoStage
  /\ allowed = NoResult
  /\ workout = NoResult
  /\ weekly = NoResult
  /\ hint = NoHint
  /\ progress = NoResult
  /\ pc = "start"

SuggestMilestone ==
  /\ pc = "start"
  /\ hint' = suggestNextMilestone(profile, latestLog)
  /\ pc' = "milestone"
  /\ UNCHANGED <<now, profile, store, logs, latestLog, stage, allowed, catalog, workout, weekly, progress>>

NextMilestone == SuggestMilestone

SpecMilestone == InitMilestone /\ [][NextMilestone]_vars

(***************************************************************************)
(* shouldProgress                                                          *)
(***************************************************************************)
ProgressWindow == 3

\* variant: the window is the first three entries supplied
recentThree_First(ls) == SliceFirst(ls, ProgressWindow)

\* logs.slice(-3)
recentThree(ls) == SliceLast(ls, ProgressWindow)

\* avgPain > 3, with the division cleared
avgPainAbove3(recent) == SumPain(recent) > 3 * Len(recent)

shouldProgress(ls) ==
  IF Len(ls) < ProgressWindow THEN FALSE
  ELSE LET recent == recentThree(ls)
       IN  IF avgPainAbove3(recent) THEN FALSE
           ELSE bucketToAngle(recent[Len(recent)].flexionBucket)
                  >= bucketToAngle(recent[1].flexionBucket)

\* every history of up to MaxHistory check-ins with pain on both sides of 3
\* and a low, a middle and a high flexion bucket
MaxHistory == 4

ProgressLogs ==
  {Log(p, 2, 2, f, "90-120", FALSE) : p \in {2, 3, 4}, f \in {"<60", "90-120", "150+"}}

InitProgress ==
  /\ now \in NowSamples
  /\ profile \in {Profile(51, "none", NoDate, MockRestrictions(FALSE))}
  /\ logs \in SeqsUpTo(ProgressLogs, MaxHistory)
  /\ latestLog = IF logs = <<>> THEN NoLog ELSE logs[Len(logs)]
  /\ store = <<>>
  /\ catalog = <<>>
  /\ stage = NoStage
  /\ allowed = NoResult
  /\ workout = NoResult
  /\ weekly = NoResult
  /\ hint = NoHint
  /\ progress = NoResult
  /\ pc = "start"

CheckProgress ==
  /\ pc = "start"
  /\ progress' = shouldProgress(logs)
  /\ pc' = "progress"
  /\ UNCHANGED <<now, profile, store, logs, latestLog, stage, allowed, catalog, workout, weekly, hint>>

NextProgress == CheckProgress

SpecProgress == InitProgress /\ [][NextProgress]_vars

(***************************************************************************)
(* Properties of currentRecoveryStage                                      *)
(***************************************************************************)
\* the bucket table of the specification
AngleOf ==
  [b \in BucketInputs |->
     IF b = "<60" THEN 30
     ELSE IF b = "60-90" THEN 75
     ELSE IF b = "90-120" THEN 105
     ELSE IF b = "120-150" THEN 135
     ELSE IF b = "150+" THEN 165
     ELSE 0]

\* the cascade of the specification for a given number of weeks recovering,
\* over the last seven entries of the window as supplied
CascadeStage(weeks, p, ls) ==
  LET n == IF Len(ls) > 7 THEN 7 ELSE Len(ls)
      window == [i \in 1..n |-> ls[Len(ls) - n + i]]
      painAtLeast(k) == IF n = 0 THEN 5 >= k ELSE SumPain(window) >= k * n
      flexion == IF n = 0 THEN 30 ELSE AngleOf[ls[Len(ls)].flexionBucket]
      abduction == IF n = 0 THEN 30 ELSE AngleOf[ls[Len(ls)].abductionBucket]
      acute == weeks <= 2 \/ p.restrictions.inSling \/ painAtLeast(7)
      early == weeks <= 6 \/ flexion < 90 \/ abduction < 90 \/ painAtLeast(5)
      strengthening == weeks <= 12 \/ flexion < 150 \/ abduction < 150
  IN  CASE acute -> "acute"
        [] ~acute /\ early -> "early-rehab"
        [] ~acute /\ ~early /\ strengthening -> "strengthening"
        [] OTHER -> "return-to-sport"

\* C1: a profile in a sling is classified acute, whatever the elapsed time
\* and whatever the log window.
C1_SlingIsAcute ==
  (pc = "stage" /\ profile.restrictions.inSling) => stage = "acute"

\* in a sling, 13 weeks after the injury, latest check-in pain-free with full
\* range of motion: only the sling makes the stage acute
C1_Witness ==
  /\ pc = "stage"
  /\ profile.restrictions.inSling
  /\ profile.surgeryDate = NoDate
  /\ weeksSince(profile.injuryDate) > 12
  /\ Len(logs) > 0
  /\ \A i \in 1..Len(logs) : logs[i].pain = 1
  /\ logs[Len(logs)].flexionBucket = "150+"
  /\ logs[Len(logs)].abductionBucket = "150+"
  /\ stage = "acute"

\* C2: the stage is the first matching tier of the cascade acute,
\* early-rehab, strengthening, return-to-sport, with the angles of the latest
\* log's buckets and pain 5 / angles 30 for an empty window.
C2_Cascade ==
  pc = "stage" => stage = CascadeStage(weeksRecovering(profile), profile, logs)

\* more than seven logs, the oldest a bad day that falls out of the window,
\* and the classifier reaches the last tier
C2_Witness ==
  /\ pc = "stage"
  /\ Len(logs) > 7
  /\ logs[1].pain = 8
  /\ stage = "return-to-sport"

\* the weeks recovering of the specification: from the surgery date only for
\* a post-op profile with a surgery date
SpecWeeksRecovering(p) ==
  IF p.surgeryStatus = "post-op" /\ p.surgeryDate # NoDate
    THEN weeksSince(p.surgeryDate[1])
    ELSE weeksSince(p.injuryDate)

\* C3: weeks recovering is measured from the surgery date only when the
\* surgery status is post-op and a surgery date exists, else from the injury
\* date.
C3_WeeksFromSurgeryOnlyPostOp ==
  pc = "stage" => stage = CascadeStage(SpecWeeksRecovering(profile), profile, logs)

\* the stage of the specification for a window that is newest first: pain
\* averaged over the seven newest logs, angles of the newest log
StageOfNewestFirst(p, ls) ==
  LET n == IF Len(ls) > 7 THEN 7 ELSE Len(ls)
      newest == [i \in 1..n |-> ls[i]]
      painAtLeast(k) == IF n = 0 THEN 5 >= k ELSE SumPain(newest) >= k * n
      flexion == IF n = 0 THEN 30 ELSE AngleOf[ls[1].flexionBucket]
      abduction == IF n = 0 THEN 30 ELSE AngleOf[ls[1].abductionBucket]
      weeks == weeksRecovering(p)
      acute == weeks <= 2 \/ p.restrictions.inSling \/ painAtLeast(7)
      early == weeks <= 6 \/ flexion < 90 \/ abduction < 90 \/ painAtLeast(5)
      strengthening == weeks <= 12 \/ flexion < 150 \/ abduction < 150
  IN  CASE acute -> "acute"
        [] ~acute /\ early -> "early-rehab"
        [] ~acute /\ ~early /\ strengthening -> "strengthening"
        [] OTHER -> "return-to-sport"

\* C4: on the pages the stage is computed from the seven most recent logs,
\* its range-of-motion gates reading the most recent log, the one the pages
\* pass on as latestLog.
C4_PageStageUsesNewestLogs ==
  pc = "planned" =>
    /\ stage = StageOfNewestFirst(profile, logs)
    /\ (Len(logs) > 0 => latestLog = logs[1])

(***************************************************************************)
(* Properties of allowedActivities                                         *)
(***************************************************************************)
\* C5: running is allowed exactly when noRunning and inSling are off and
\* there is no log or the log has pain <= 5 and instability <= 5.
C5_RunIff ==
  pc = "allowed" =>
    /\ Includes(allowed.cardio, "run") <=>
          /\ profile.restrictions.noRunning = FALSE
          /\ profile.restrictions.inSling = FALSE
          /\ \/ latestLog = NoLog
             \/ (latestLog.pain <= 5 /\ latestLog.instability <= 5)
    /\ profile.restrictions.noRunning => ~Includes(allowed.cardio, "run")
    /\ profile.restrictions.inSling => ~Includes(allowed.cardio, "run")

\* running allowed at the edge of the rule: pain 5 and instability 5
C5_Witness ==
  /\ pc = "allowed"
  /\ latestLog # NoLog
  /\ latestLog.pain = 5
  /\ latestLog.instability = 5
  /\ Includes(allowed.cardio, "run")

\* C6: isDeloadWeek holds exactly when a log is present with pain >= 7 or
\* instability >= 7 or sleepImpact >= 8.
C6_DeloadIff ==
  pc = "allowed" =>
    /\ allowed.isDeloadWeek <=>
          /\ latestLog # NoLog
          /\ (latestLog.pain >= 7 \/ latestLog.instability >= 7
                \/ latestLog.sleepImpact >= 8)
    /\ latestLog = NoLog => ~allowed.isDeloadWeek

\* a deload week triggered by sleep impact alone
C6_Witness ==
  /\ pc = "allowed"
  /\ latestLog # NoLog
  /\ latestLog.pain < 7
  /\ latestLog.instability < 7
  /\ latestLog.sleepImpact = 8
  /\ allowed.isDeloadWeek

\* C7: walk and bike are always allowed cardio and legs always allowed
\* strength.
C7_WalkBikeLegsAlways ==
  pc = "allowed" =>
    /\ Includes(allowed.cardio, "walk")
    /\ Includes(allowed.cardio, "bike")
    /\ Includes(allowed.strength, "legs")

\* the most restricted case: in a sling, no running, no range of motion,
\* pain 10
C7_Witness ==
  /\ pc = "allowed"
  /\ profile.restrictions.inSling
  /\ profile.restrictions.noRunning
  /\ profile.restrictions.maxFlexionAngle < 60
  /\ latestLog # NoLog
  /\ latestLog.pain = 10
  /\ allowed.cardio = <<"walk", "bike">>
  /\ allowed.strength = <<"legs">>

\* C8: rowing is allowed only with at least 90 degrees of abduction and a
\* latest log with pain <= 3.
C8_RowNeedsAbduction90 ==
  (pc = "allowed" /\ Includes(allowed.cardio, "row")) =>
    /\ profile.restrictions.maxAbductionAngle >= 90
    /\ (latestLog # NoLog => latestLog.pain <= 3)

\* C9: canDoOverhead holds exactly when noOverhead is off, both maximum
\* angles are at least 120 and there is no log or pain <= 3; upper-push is
\* allowed exactly when canDoOverhead holds.
C9_OverheadIff ==
  pc = "allowed" =>
    /\ allowed.canDoOverhead <=>
          /\ profile.restrictions.noOverhead = FALSE
          /\ profile.restrictions.maxAbductionAngle >= 120
          /\ profile.restrictions.maxFlexionAngle >= 120
          /\ (latestLog = NoLog \/ latestLog.pain <= 3)
    /\ Includes(allowed.strength, "upper-push") <=> allowed.canDoOverhead

\* overhead cleared at the edge of the rule: both angles 120, pain 3
C9_Witness ==
  /\ pc = "allowed"
  /\ profile.restrictions.maxAbductionAngle = 120
  /\ profile.restrictions.maxFlexionAngle = 120
  /\ latestLog # NoLog
  /\ latestLog.pain = 3
  /\ allowed.canDoOverhead
  /\ Includes(allowed.strength, "upper-push")

(***************************************************************************)
(* Properties of rehabPlan                                                 *)
(***************************************************************************)
\* C10: every exercise of a rehab plan meets every eligibility rule: range of
\* motion floors, overhead, shoulder loading, external rotation and the
\* difficulty caps of the stage and of the current pain.
C10_PlanExercisesEligible ==
  pc = "rehab" =>
    LET flexion == IF latestLog = NoLog THEN 30 ELSE AngleOf[latestLog.flexionBucket]
        abduction == IF latestLog = NoLog THEN 30 ELSE AngleOf[latestLog.abductionBucket]
        pain == IF latestLog = NoLog THEN 5 ELSE latestLog.pain
        r == profile.restrictions
    IN  \A i \in 1..Len(workout.exercises) :
          LET ex == workout.exercises[i].exercise
          IN  /\ ex.minFlexionAngle <= flexion
              /\ ex.minAbductionAngle <= abduction
              /\ ex.requiresOverhead => (~r.noOverhead /\ flexion >= 120)
              /\ ex.requiresShoulderLoading => ~r.inSling
              /\ ex.requiresExternalRotation => r.externalRotationLimit # "severe"
              /\ (workout.stage = "acute" \/ pain >= 6) => ex.difficulty <= 2
              /\ workout.stage = "early-rehab" => ex.difficulty <= 3

\* a strengthening plan at pain 6: a plan is produced, and a difficulty-3
\* rehab exercise of the library whose other requirements are met is left out
C10_Witness ==
  /\ pc = "rehab"
  /\ workout.stage = "strengthening"
  /\ latestLog # NoLog
  /\ latestLog.pain = 6
  /\ ~profile.restrictions.inSling
  /\ Len(workout.exercises) >= 3
  /\ \E k \in 1..Len(catalog) :
       /\ catalog[k].id = "band-row"
       /\ catalog[k].minFlexionAngle <= currentFlexion(latestLog)
       /\ \A i \in 1..Len(workout.exercises) :
            workout.exercises[i].exercise.id # "band-row"

\* the eligibility rules of the specification, for one library entry
EligibleByRules(ex, stg, p, log) ==
  LET flexion == IF log = NoLog THEN 30 ELSE AngleOf[log.flexionBucket]
      abduction == IF log = NoLog THEN 30 ELSE AngleOf[log.abductionBucket]
      pain == IF log = NoLog THEN 5 ELSE log.pain
      r == p.restrictions
  IN  /\ ex.category = "rehab"
      /\ ex.minFlexionAngle <= flexion
      /\ ex.minAbductionAngle <= abduction
      /\ ex.requiresOverhead => (~r.noOverhead /\ flexion >= 120)
      /\ ex.requiresShoulderLoading => ~r.inSling
      /\ ex.requiresExternalRotation => r.externalRotationLimit # "severe"
      /\ (stg = "acute" \/ pain >= 6) => ex.difficulty <= 2
      /\ stg = "early-rehab" => ex.difficulty <= 3

EligibleCount(stg, p, log) ==
  Cardinality({k \in 1..Len(catalog) : EligibleByRules(catalog[k], stg, p, log)})

TargetCount ==
  [stg \in Stages |->
     IF stg = "acute" THEN 3
     ELSE IF stg = "early-rehab" THEN 4
     ELSE IF stg = "strengthening" THEN 5
     ELSE 6]

\* C11: a rehab plan has exactly min(target count of the stage, number of
\* eligible rehab exercises) exercises, the targets being 3, 4, 5 and 6; an
\* acute plan never has more than 3.
C11_PlanSize ==
  pc = "rehab" =>
    /\ Len(workout.exercises)
         = Min(TargetCount[workout.stage],
               EligibleCount(workout.stage, profile, latestLog))
    /\ workout.stage = "acute" => Len(workout.exercises) <= 3

\* more eligible exercises than the stage's target: the plan is cut to 6
C11_Witness ==
  /\ pc = "rehab"
  /\ workout.stage = "return-to-sport"
  /\ EligibleCount("return-to-sport", profile, latestLog) > 6
  /\ Len(workout.exercises) = 6

StageRank ==
  [stg \in Stages |->
     IF stg = "acute" THEN 1
     ELSE IF stg = "early-rehab" THEN 2
     ELSE IF stg = "strengthening" THEN 3
     ELSE 4]

\* C12: with profile, latest log and library fixed, the number of exercises
\* of the rehab plan does not decrease as the stage advances.
C12_PlanSizeMonotone ==
  pc = "rehab" =>
    \A later \in Stages :
      StageRank[workout.stage] <= StageRank[later] =>
        Len(workout.exercises)
          <= Len(rehabPlan(later, profile, latestLog).exercises)

\* an acute plan of 3 exercises where the same inputs give 6 at
\* return-to-sport
C12_Witness ==
  /\ pc = "rehab"
  /\ workout.stage = "acute"
  /\ Len(workout.exercises) = 3
  /\ Len(rehabPlan("return-to-sport", profile, latestLog).exercises) = 6

(***************************************************************************)
(* Properties of fitnessPlan                                               *)
(***************************************************************************)
CardioWorkouts ==
  SelectSeq(weekly.workouts, LAMBDA w : w.fitness.type = "cardio")

StrengthWorkouts ==
  SelectSeq(weekly.workouts, LAMBDA w : w.fitness.type # "cardio")

\* C13: whenever running is not among the allowed cardio types, every cardio
\* workout of the weekly plan is a bike session; under the noRunning
\* restriction no cardio workout is a run
C13_NoRunMeansBike ==
  pc = "fitness" =>
    /\ ~Includes(allowedActivities(profile, latestLog).cardio, "run") =>
         \A i \in 1..Len(CardioWorkouts) : CardioWorkouts[i].fitness.cardioType = "bike"
    /\ profile.restrictions.noRunning =>
         \A i \in 1..Len(CardioWorkouts) : CardioWorkouts[i].fitness.cardioType # "run"

C13_Witness ==
  /\ pc = "fitness"
  /\ profile.restrictions.noRunning
  /\ ~Includes(allowedActivities(profile, latestLog).cardio, "run")
  /\ Len(CardioWorkouts) >= 2
  /\ CardioWorkouts[1].fitness.cardioType = "bike"

\* C14: for the same profile and the same current time, a latest log that
\* triggers a deload yields strictly fewer total cardio minutes than a latest
\* log that does not, for every goal type from week 1 on
C14_DeloadCutsCardio ==
  (pc = "fitness" /\ weekly.weekNumber >= 1 /\ isDeloadWeek(latestLog)) =>
    \A other \in FitnessLogs :
      ~isDeloadWeek(other) =>
        weekly.totalCardioMinutes < fitnessPlan(profile, other, logs).totalCardioMinutes

C14_Witness ==
  /\ pc = "fitness"
  /\ profile.goal.type = "half-marathon"
  /\ latestLog # NoLog /\ latestLog.pain = 8
  /\ weekly.weekNumber = 2
  /\ weekly.totalCardioMinutes = 48
  /\ fitnessPlan(profile, Log(3, 2, 2, "150+", "150+", FALSE), logs).totalCardioMinutes = 80

\* the weekly cardio target of the goal types in week w, before any deload
RampMinutes(type, w) ==
  CASE type = "half-marathon" -> IF 60 + 10 * w < 180 THEN 60 + 10 * w ELSE 180
    [] type = "10k" -> IF 45 + 8 * w < 120 THEN 45 + 8 * w ELSE 120
    [] type = "5k" -> IF 30 + 6 * w < 90 THEN 30 + 6 * w ELSE 90
    [] type = "general-conditioning" -> 90
    [] type = "maintain-fitness" -> 90
    [] type = "strength" -> 60
    [] type = "weight-loss" -> 150

\* C15: weekNumber is the whole weeks elapsed since profile.createdAt plus 1;
\* without a deload totalCardioMinutes is the goal's ramp value for that week,
\* and in a deload week it is the floor of 0.6 times that value
C15_WeekAndCardioMinutes ==
  pc = "fitness" =>
    LET w == weekly.weekNumber
        full == RampMinutes(profile.goal.type, w)
        m == weekly.totalCardioMinutes
    IN  /\ (w - 1) * 7 <= now - profile.createdAt
        /\ now - profile.createdAt < w * 7
        /\ ~allowedActivities(profile, latestLog).isDeloadWeek => m = full
        /\ allowedActivities(profile, latestLog).isDeloadWeek =>
             (10 * m <= 6 * full /\ 6 * full < 10 * (m + 1))

\* a 10k goal in week 10, where the ramp is capped at 120, in a deload week
C15_Witness ==
  /\ pc = "fitness"
  /\ profile.goal.type = "10k"
  /\ now - profile.createdAt = 63
  /\ weekly.weekNumber = 10
  /\ isDeloadWeek(latestLog)
  /\ weekly.totalCardioMinutes = 72

\* the smallest whole number of sessions that is at least 0.6 * n
SixTenthsUp(n) == CHOOSE k \in 0..n : 10 * k >= 6 * n /\ 10 * (k - 1) < 6 * n

\* C16: the plan never holds more workouts than min(goal.daysPerWeek, 6),
\* never more cardio sessions than ceil(0.6 * workoutsPerWeek), never more
\* strength sessions than workoutsPerWeek minus that, and
\* totalStrengthSessions counts the strength workouts of the list
C16_SessionCaps ==
  pc = "fitness" =>
    LET perWeek == IF profile.goal.daysPerWeek < 6 THEN profile.goal.daysPerWeek ELSE 6
    IN  /\ Len(weekly.workouts) <= perWeek
        /\ Len(CardioWorkouts) <= SixTenthsUp(perWeek)
        /\ Len(StrengthWorkouts) <= perWeek - SixTenthsUp(perWeek)
        /\ weekly.totalStrengthSessions = Len(StrengthWorkouts)

\* five days a week: three cardio sessions and two strength sessions
C16_Witness ==
  /\ pc = "fitness"
  /\ profile.goal.daysPerWeek = 5
  /\ Len(weekly.workouts) = 5
  /\ Len(CardioWorkouts) = 3
  /\ weekly.totalStrengthSessions = 2

\* C20: no workout falls on day 3 or day 6, every workout day is in 0..6,
\* no day holds two workouts, and the workouts are listed in strictly
\* increasing day order
C20_DaysOrderedNoRestDays ==
  pc = "fitness" =>
    /\ \A i \in 1..Len(weekly.workouts) :
         /\ weekly.workouts[i].day \in 0..6
         /\ weekly.workouts[i].day \notin {3, 6}
    /\ \A i, j \in 1..Len(weekly.workouts) :
         i # j => weekly.workouts[i].day # weekly.workouts[j].day
    /\ \A i \in 1..(Len(weekly.workouts) - 1) :
         weekly.workouts[i].day < weekly.workouts[i + 1].day

\* a full week: workouts on days 0, 1, 2, 4 and 5
C20_Witness ==
  /\ pc = "fitness"
  /\ Len(weekly.workouts) = 5
  /\ [i \in 1..5 |-> weekly.workouts[i].day] = <<0, 1, 2, 4, 5>>

(***************************************************************************)
(* Properties of shouldProgress and suggestNextMilestone                   *)
(***************************************************************************)
\* C17: shouldProgress is false for fewer than three entries; otherwise,
\* over the last three entries supplied, it is false when their average pain
\* is above 3 and else true exactly when the angle of the last entry's
\* flexion bucket is at least that of the first of the three
C17_ProgressRule ==
  pc = "progress" =>
    LET n == Len(logs)
    IN  IF n < 3 THEN progress = FALSE
        ELSE IF logs[n - 2].pain + logs[n - 1].pain + logs[n].pain > 9
          THEN progress = FALSE
        ELSE progress = (AngleOf[logs[n].flexionBucket] >= AngleOf[logs[n - 2].flexionBucket])

\* four entries, average pain of the last three exactly 3, flexion back up
\* from the second entry although below the first
C17_Witness ==
  /\ pc = "progress"
  /\ Len(logs) = 4
  /\ logs[2].pain + logs[3].pain + logs[4].pain = 9
  /\ AngleOf[logs[4].flexionBucket] > AngleOf[logs[2].flexionBucket]
  /\ AngleOf[logs[4].flexionBucket] < AngleOf[logs[1].flexionBucket]
  /\ progress = TRUE

\* the rules of the milestone hint in priority order, each with its hint
MilestoneRules ==
  <<[holds |-> latestLog = NoLog,
     hint |-> "Complete your first daily log to track progress"],
    [holds |-> latestLog # NoLog /\ AngleOf[latestLog.flexionBucket] < 90,
     hint |-> "Work toward forward flexion to 90 degrees"],
    [holds |-> latestLog # NoLog /\ AngleOf[latestLog.abductionBucket] < 90,
     hint |-> "Work toward abduction to 90 degrees"],
    [holds |-> latestLog # NoLog /\ AngleOf[latestLog.flexionBucket] < 120,
     hint |-> "Work toward forward flexion to 120 degrees"],
    [holds |-> latestLog # NoLog /\ AngleOf[latestLog.abductionBucket] < 120,
     hint |-> "Work toward abduction to 120 degrees"],
    [holds |-> latestLog # NoLog /\ latestLog.slingWorn,
     hint |-> "First day without sling (when cleared by provider)"],
    [holds |-> latestLog # NoLog /\ latestLog.sleepImpact > 3,
     hint |-> "Work toward pain-free sleep"],
    [holds |-> latestLog # NoLog /\ ~profile.restrictions.noRunning /\ latestLog.pain <= 3,
     hint |-> "First pain-free run"],
    [holds |-> TRUE,
     hint |-> "Continue strengthening toward full recovery"]>>

\* C18: the hint returned is that of the first rule, in the fixed priority
\* order, whose condition holds
C18_FirstMatchingRule ==
  pc = "milestone" =>
    \E k \in 1..Len(MilestoneRules) :
      /\ MilestoneRules[k].holds
      /\ \A j \in 1..(k - 1) : ~MilestoneRules[j].holds
      /\ hint = MilestoneRules[k].hint

\* the sling hint wins over the sleep and first-run hints that also apply
C18_Witness ==
  /\ pc = "milestone"
  /\ latestLog # NoLog
  /\ latestLog.slingWorn /\ latestLog.sleepImpact > 3
  /\ ~profile.restrictions.noRunning /\ latestLog.pain <= 3
  /\ hint = "First day without sling (when cleared by provider)"

(***************************************************************************)
(* Further properties of rehabPlan                                         *)
(***************************************************************************)
\* how far a difficulty lies from the target difficulty of a stage
Gap(ex, stg) ==
  LET t == IF stg = "acute" THEN 1 ELSE IF stg = "early-rehab" THEN 2 ELSE 3
  IN  IF ex.difficulty >= t THEN ex.difficulty - t ELSE t - ex.difficulty

\* the place of a library entry in the library
CatalogIndex(ex) == CHOOSE k \in 1..Len(catalog) : catalog[k] = ex

\* C21: the exercises of a rehab plan are in ascending order of distance to
\* the stage's target difficulty, exercises at equal distance keep their
\* library order, and no eligible exercise left out is closer to the target
\* than a selected one
C21_ClosestToTarget ==
  pc = "rehab" =>
    LET chosen == [i \in 1..Len(workout.exercises) |-> workout.exercises[i].exercise]
        stg == workout.stage
    IN  /\ \A i, j \in 1..Len(chosen) :
             i < j =>
               /\ Gap(chosen[i], stg) <= Gap(chosen[j], stg)
               /\ Gap(chosen[i], stg) = Gap(chosen[j], stg) =>
                    CatalogIndex(chosen[i]) < CatalogIndex(chosen[j])
        /\ \A i \in 1..Len(chosen) :
             \A k \in 1..Len(catalog) :
               (/\ EligibleByRules(catalog[k], stg, profile, latestLog)
                /\ \A j \in 1..Len(chosen) : chosen[j] # catalog[k])
                 => Gap(chosen[i], stg) <= Gap(catalog[k], stg)

\* ten eligible exercises at return-to-sport: the two of difficulty 3 lead,
\* the four at distance 1 follow in library order, the easiest are left out
C21_Witness ==
  /\ pc = "rehab"
  /\ workout.stage = "return-to-sport"
  /\ [i \in 1..Len(workout.exercises) |-> workout.exercises[i].exercise.id]
       = <<"band-row", "band-er", "prone-y", "wand-flexion", "isometric-er", "wall-slide">>
  /\ \E k \in 1..Len(catalog) : catalog[k].id = "pendulum"

\* C22: rehabPlan returns a workout for every input; when no exercise of the
\* library is eligible the exercise list is empty and totalDuration is
\* exactly '5 min'
C22_EmptyPlanIsFiveMinutes ==
  pc = "rehab" =>
    /\ workout # NoResult
    /\ workout.stage = stage
    /\ EligibleCount(stage, profile, latestLog) = 0 =>
         /\ workout.exercises = <<>>
         /\ workout.totalDuration = <<"5", " ", "m", "i", "n">>

\* a library whose only rehab exercise asks for more flexion than the
\* check-in reports
C22_Witness ==
  /\ pc = "rehab"
  /\ \E k \in 1..Len(catalog) :
       catalog[k].category = "rehab" /\ catalog[k].minFlexionAngle = 90
  /\ latestLog # NoLog /\ latestLog.flexionBucket = "<60"
  /\ EligibleCount(stage, profile, latestLog) = 0
  /\ workout.exercises = <<>>
  /\ workout.totalDuration = <<"5", " ", "m", "i", "n">>

\* C23: the plan carries the 'Go gentle today' note exactly when the current
\* pain, which is the pain of the latest log or 5 without one, is at least 5:
\* always without a log, never for a log with pain 4 or less
C23_CautionNoteIff ==
  pc = "rehab" =>
    /\ (workout.notes = <<"Go gentle today - pain is elevated">>)
         <=> (latestLog = NoLog \/ latestLog.pain >= 5)
    /\ (workout.notes = <<>>) <=> (latestLog # NoLog /\ latestLog.pain <= 4)

\* a plan without a check-in, carrying the note
C23_Witness ==
  /\ pc = "rehab"
  /\ latestLog = NoLog
  /\ Len(workout.exercises) >= 1
  /\ workout.notes = <<"Go gentle today - pain is elevated">>

(***************************************************************************)
(* Further properties of allowedActivities                                 *)
(***************************************************************************)
RunPausedNote == "Running paused due to pain/instability levels"

\* C24 as stated: whenever 'run' is not among the cardio types, whether
\* because of noRunning, of the sling or of the log's pain or instability,
\* the notes hold 'Running paused due to pain/instability levels'
C24_NoteWheneverNoRun ==
  pc = "allowed" =>
    (~Includes(allowed.cardio, "run") => Includes(allowed.notes, RunPausedNote))

\* C24 as amended: the notes hold 'Running paused due to pain/instability
\* levels' exactly when running is neither restricted nor ruled out by the
\* sling and the log's pain or instability exceeds 5; running withheld by
\* noRunning or by the sling comes without the note
C24_NoteIffPausedByLog ==
  pc = "allowed" =>
    /\ Includes(allowed.notes, RunPausedNote) <=>
         /\ ~profile.restrictions.noRunning
         /\ ~profile.restrictions.inSling
         /\ latestLog # NoLog
         /\ (latestLog.pain > 5 \/ latestLog.instability > 5)
    /\ Includes(allowed.notes, RunPausedNote) => ~Includes(allowed.cardio, "run")

\* running paused by instability 6 alone
C24_Witness ==
  /\ pc = "allowed"
  /\ ~profile.restrictions.noRunning /\ ~profile.restrictions.inSling
  /\ latestLog # NoLog /\ latestLog.pain <= 5 /\ latestLog.instability = 6
  /\ ~Includes(allowed.cardio, "run")
  /\ Includes(allowed.notes, RunPausedNote)

(***************************************************************************)
(* Further properties of fitnessPlan                                       *)
(***************************************************************************)
\* the exercises of one workout of the week
ExercisesOf(w) ==
  [i \in 1..Len(w.fitness.exercises) |-> w.fitness.exercises[i].exercise]

\* C25: every strength workout has a non-empty list of at most 3 leg
\* exercises followed by at most 2 core exercises; none targets the shoulder,
\* none requires overhead unless overhead work is allowed, none requires
\* shoulder loading in a sling, and each asks for no more flexion than the
\* current flexion angle (30 without a log)
C25_StrengthWorkoutsSafe ==
  pc = "fitness" =>
    LET flexion == IF latestLog = NoLog THEN 30 ELSE AngleOf[latestLog.flexionBucket]
    IN  \A i \in 1..Len(StrengthWorkouts) :
          LET exs == ExercisesOf(StrengthWorkouts[i])
          IN  /\ Len(exs) >= 1
              /\ \E n \in 0..3 :
                   /\ n <= Len(exs) /\ Len(exs) - n <= 2
                   /\ \A k \in 1..Len(exs) :
                        exs[k].targetArea = IF k <= n THEN "legs" ELSE "core"
              /\ \A k \in 1..Len(exs) :
                   /\ exs[k].targetArea # "shoulder"
                   /\ exs[k].requiresOverhead =>
                        allowedActivities(profile, latestLog).canDoOverhead
                   /\ exs[k].requiresShoulderLoading => ~profile.restrictions.inSling
                   /\ exs[k].minFlexionAngle <= flexion

\* in a sling, with a library that starts with overhead and loaded
\* exercises: three leg exercises and two unloaded core exercises
C25_Witness ==
  /\ pc = "fitness"
  /\ profile.restrictions.inSling
  /\ catalog = OverheadFirstCatalog
  /\ \E k \in 1..Len(catalog) :
       /\ catalog[k].category = "strength"
       /\ catalog[k].targetArea = "core"
       /\ catalog[k].requiresShoulderLoading
       /\ catalog[k].minFlexionAngle <= currentFlexion(latestLog)
  /\ Len(StrengthWorkouts) >= 1
  /\ [k \in 1..Len(StrengthWorkouts[1].fitness.exercises) |->
        StrengthWorkouts[1].fitness.exercises[k].exercise.targetArea]
       = <<"legs", "legs", "legs", "core", "core">>

\* overhead work cleared: the overhead squat leads the leg exercises
C25_OverheadCleared ==
  /\ pc = "fitness"
  /\ allowedActivities(profile, latestLog).canDoOverhead
  /\ Len(StrengthWorkouts) >= 1
  /\ StrengthWorkouts[1].fitness.exercises[1].exercise.requiresOverhead

\* C26: a strength workout of the weekly plan holds core exercises only when
\* 'core' is among the strength categories allowedActivities permits for the
\* same profile and log
C26_CoreOnlyWhenAllowed ==
  pc = "fitness" =>
    \A i \in 1..Len(StrengthWorkouts) :
      (\E k \in 1..Len(ExercisesOf(StrengthWorkouts[i])) :
         ExercisesOf(StrengthWorkouts[i])[k].targetArea = "core")
        => Includes(allowedActivities(profile, latestLog).strength, "core")

\* the workout names by stage: first letter capitalised, hyphens as spaces
SpacedName ==
  [stg \in Stages |->
     IF stg = "acute" THEN <<"A", "c", "u", "t", "e", " ", "R", "e", "h", "a", "b", " ", "S", "e", "s", "s", "i", "o", "n">>
     ELSE IF stg = "early-rehab" THEN <<"E", "a", "r", "l", "y", " ", "r", "e", "h", "a", "b", " ", "R", "e", "h", "a", "b", " ", "S", "e", "s", "s", "i", "o", "n">>
     ELSE IF stg = "strengthening" THEN <<"S", "t", "r", "e", "n", "g", "t", "h", "e", "n", "i", "n", "g", " ", "R", "e", "h", "a", "b", " ", "S", "e", "s", "s", "i", "o", "n">>
     ELSE <<"R", "e", "t", "u", "r", "n", " ", "t", "o", " ", "s", "p", "o", "r", "t", " ", "R", "e", "h", "a", "b", " ", "S", "e", "s", "s", "i", "o", "n">>]

\* C27: the name of the rehab workout is the stage with its first letter
\* capitalised and its hyphens replaced by spaces, followed by
\* ' Rehab Session', for each of the four stages
C27_NameSpacesForHyphens ==
  pc = "rehab" => workout.name = SpacedName[workout.stage]

\* C28: for every daysPerWeek in 2..6, when an eligible cardio exercise and
\* an eligible leg or core exercise exist, the week ends with both quotas
\* filled: ceil(0.6 * workoutsPerWeek) cardio sessions, the remainder as
\* strength sessions, min(daysPerWeek, 6) workouts in all
C28_QuotasFilled ==
  (/\ pc = "fitness"
   /\ profile.goal.daysPerWeek \in 2..6
   /\ cardioExercises(profile, latestLog) # <<>>
   /\ selectedStrength(profile, latestLog) # <<>>)
    => LET perWeek == IF profile.goal.daysPerWeek < 6 THEN profile.goal.daysPerWeek ELSE 6
       IN  /\ Len(CardioWorkouts) = SixTenthsUp(perWeek)
           /\ Len(StrengthWorkouts) = perWeek - SixTenthsUp(perWeek)
           /\ Len(weekly.workouts) = perWeek

\* C29: for a profile in a sling, with any latest log or none, no upper-body
\* work is permitted: canDoOverhead is false and the strength categories hold
\* neither 'upper-pull' nor 'upper-push'
C29_NoUpperBodyInSling ==
  (pc = "allowed" /\ profile.restrictions.inSling) =>
    /\ allowed.canDoOverhead = FALSE
    /\ ~Includes(allowed.strength, "upper-pull")
    /\ ~Includes(allowed.strength, "upper-push")

\* the permissions of a are among those of b
PermissionsWithin(a, b) ==
  /\ \A i \in 1..Len(a.cardio) : Includes(b.cardio, a.cardio[i])
  /\ \A i \in 1..Len(a.strength) : Includes(b.strength, a.strength[i])
  /\ a.canDoOverhead => b.canDoOverhead
  /\ a.canDoHeavyCarries => b.canDoHeavyCarries
  /\ a.canDoPullUps => b.canDoPullUps

\* C30: for a fixed profile the permissions with a log are among those
\* without a log, and of two logs that differ only in pain the one with the
\* higher pain permits no more than the other
C30_PermissionsShrinkWithPain ==
  (pc = "allowed" /\ latestLog # NoLog) =>
    /\ PermissionsWithin(allowed, allowedActivities(profile, NoLog))
    /\ \A higher \in 0..MaxScore :
         higher > latestLog.pain =>
           PermissionsWithin(
             allowedActivities(profile, [latestLog EXCEPT !.pain = higher]),
             allowed)

\* a log with pain 2 that permits everything, pull-ups included, where pain 6
\* takes running, rowing and the upper-body work away
C30_Witness ==
  /\ pc = "allowed"
  /\ latestLog # NoLog /\ latestLog.pain = 2
  /\ allowed.canDoPullUps /\ allowed.canDoOverhead
  /\ Includes(allowed.cardio, "run") /\ Includes(allowed.cardio, "row")
  /\ allowedActivities(profile, NoLog).canDoPullUps
  /\ LET worse == allowedActivities(profile, [latestLog EXCEPT !.pain = 6])
     IN  /\ ~Includes(worse.cardio, "run") /\ ~Includes(worse.cardio, "row")
         /\ ~Includes(worse.strength, "upper-pull")
         /\ ~worse.canDoOverhead /\ ~worse.canDoHeavyCarries

====
